---- MODULE Spec2Model ----
(***************************************************************************)
(* Glucommander IV insulin infusion calculators.                           *)
(*                                                                         *)
(* Two Streamlit scripts live in the repository:                           *)
(*   src/infusion.py              the current app: the pure functions      *)
(*                                calc_initial_rate_and_bolus and          *)
(*                                calc_ongoing_rate plus a mode-selecting  *)
(*                                wrapper;                                 *)
(*   src/iv_insulin_calculator.py the older single-form calculator.        *)
(*                                                                         *)
(* Units.  Glucose values are whole mg/dL (the widgets step by 1.0).       *)
(* Insulin amounts (bolus, rates, last_rate) are integers counting TENTHS  *)
(* of a unit, so 2.6 U/h is 26.  Intermediate values of the formulas are   *)
(* exact rationals [n |-> numerator, d |-> denominator] with d > 0.        *)
(*                                                                         *)
(* Rounding.  Python's round(x, 1) returns the tenth nearest to the binary *)
(* double x.  The double differs from the exact decimal value of the       *)
(* formula by a representation error far smaller than any distance between *)
(* a non-tie value and the rounding boundary, so away from an exact        *)
(* decimal tie the result is the nearest tenth of the exact value.  At an  *)
(* exact tie (x.x5) the direction depends on the sign of the               *)
(* representation error (round(0.15, 1) = 0.1 but round(0.45, 1) = 0.5),   *)
(* so Round1 yields the SET of the two neighbouring tenths there and the   *)
(* actions choose among them.                                              *)
(***************************************************************************)
EXTENDS Integers, Sequences, FiniteSets, TLC

VARIABLES prog, mode, init_bg, curr_bg, prev_bg, last_rate, A, B, C,
          shown, call, before

vars == <<prog, mode, init_bg, curr_bg, prev_bg, last_rate, A, B, C,
          shown, call, before>>

(***************************************************************************)
(* Bounds of the explored input space.                                     *)
(***************************************************************************)
MaxBG == 310
MaxRate == 50
EdgeSpread == 1
MaxShift == 2

\* Band boundaries that appear in the comparisons of calc_ongoing_rate and
\* calc_initial_rate_and_bolus.
BandEdges == {70, 110, 140, 180, 250, 300}

\* Glucose readings that can be typed into a widget (min_value = 0.0).
BGs == {b \in 0..MaxBG :
          \/ b % 10 = 0
          \/ b % 50 = 35
          \/ \E e \in BandEdges : b - e \in (0 - EdgeSpread)..EdgeSpread}

\* Pump rates (tenths of U/h) that can be typed into the app's rate widget
\* (min_value = 0.0, step = 0.1).
Rates == {r \in 0..MaxRate : r % 10 = 0}

\* Arguments a direct caller (a unit test) can pass to the pure functions,
\* which take any float: every whole reading, rates in steps of 0.5 U/h,
\* some negative values, and prev_bg = curr_bg + one of Deltas.
FnBGs == (0..MaxBG) \cup {-5}
NegRates == {-10}
FnRates == {r \in 0..MaxRate : r % 5 = 0} \cup NegRates
Deltas == {-45, -1, 0, 1, 5, 10, 11, 39, 40, 45}

(***************************************************************************)
(* Arithmetic helpers.                                                     *)
(***************************************************************************)
Rat(n, d) == [n |-> n, d |-> d]

\* a <= b for rationals with positive denominators
RatLeq(a, b) == a.n * b.d <= b.n * a.d

\* Python max(a, b): returns b only when b > a
RatMax(a, b) == IF RatLeq(b, a) THEN a ELSE b

\* round(x, 1): the possible results, in tenths
Round1(x) ==
  LET t == 10 * x.n
      q == t \div x.d
      r == t % x.d
  IN  IF 2 * r < x.d THEN {q}
      ELSE IF 2 * r > x.d THEN {q + 1}
      ELSE {q, q + 1}

\* round(x) to a whole number.  A quotient that is exactly k + 0.5 is a
\* representable double, so the division is exact there and Python's
\* round-half-to-even decides.
Round0(x) ==
  LET q == x.n \div x.d
      r == x.n % x.d
  IN  IF 2 * r < x.d THEN q
      ELSE IF 2 * r > x.d THEN q + 1
      ELSE IF q % 2 = 0 THEN q ELSE q + 1

\* Optional values: <<>> is None / not displayed, <<v>> is the value v
None == << >>
Some(v) == <<v>>

(***************************************************************************)
(* src/infusion.py: the pure calculation functions.                        *)
(***************************************************************************)

\* Mutation: the 300 mg/dL reading itself still gets the small-dose divisor.
divisor_gt(bg) == IF bg > 300 THEN 70 ELSE 100

\* divisor chosen by calc_initial_rate_and_bolus
divisor(bg) == IF bg >= 300 THEN 70 ELSE 100

\* calc_initial_rate_and_bolus(bg): the possible (bolus, rate) pairs
calc_initial_rate_and_bolus(bg) ==
  {<<bolus, bolus>> : bolus \in Round1(Rat(bg, divisor(bg)))}

\* the hypoglycaemia stop: calc_ongoing_rate returns 0.0 at once
hypoglycaemia(curr) == curr < 70

\* Mutation: the top band gets the same multiplier as the others.
base_m_flat(curr) == Rat(20, 1000)

\* base multiplier of the band holding curr_bg, in thousandths
base_m(curr) ==
  IF 110 <= curr /\ curr < 140 THEN Rat(20, 1000)
  ELSE IF 140 <= curr /\ curr < 180 THEN Rat(20, 1000)
  ELSE IF 180 <= curr /\ curr < 250 THEN Rat(20, 1000)
  ELSE Rat(30, 1000)

\* Mutation: a fall of exactly 40 mg/dL no longer counts as a fast fall.
roc_m_gt(delta, base) ==
  IF delta > 40 THEN Rat(14, 1000)
  ELSE IF delta <= 0 THEN Rat(30, 1000)
  ELSE base

\* multiplier after the rate-of-change adjustment
roc_m(delta, base) ==
  IF delta >= 40 THEN Rat(14, 1000)
  ELSE IF delta <= 0 THEN Rat(30, 1000)
  ELSE base

\* Mutation: the 0.01 increment of the adaptive multiplier is lost.
adaptive_m_flat(curr, last) ==
  LET n == IF curr - 60 > 1 THEN curr - 60 ELSE 1
  IN  Rat(last, 10 * n)

\* adaptive_m = last_rate / max(curr_bg - 60, 1) + 0.01   (last in tenths)
adaptive_m(curr, last) ==
  LET n == IF curr - 60 > 1 THEN curr - 60 ELSE 1
  IN  Rat(100 * last + 10 * n, 1000 * n)

\* multiplier after the persistent-hyperglycaemia rule
escalated_m(curr, delta, m, last) ==
  IF curr >= 180 /\ delta <= 10
    THEN RatMax(m, adaptive_m(curr, last))
    ELSE m

\* final multiplier m used by calc_ongoing_rate for curr_bg >= 70
multiplier(curr, prev, last) ==
  LET delta == prev - curr
  IN  escalated_m(curr, delta, roc_m(delta, base_m(curr)), last)

\* calc_ongoing_rate(curr_bg, prev_bg, last_rate): the possible results
calc_ongoing_rate(curr, prev, last) ==
  IF hypoglycaemia(curr) THEN {0}
  ELSE LET m == multiplier(curr, prev, last)
           new_rate == Rat((curr - 60) * m.n, m.d)
       IN  Round1(RatMax(new_rate, Rat(0, 1)))

(***************************************************************************)
(* What a script run leaves on the page.  msg says which block was         *)
(* written; the other fields are the script's variables of that name       *)
(* (None when the run never assigned them); comment is the advisory text,   *)
(* followed by the dextrose volume in tenths of a ml when it names one.    *)
(***************************************************************************)
Page(msg, bolus, rate, new_rate, comment, next_check) ==
  [msg |-> msg, bolus |-> bolus, rate |-> rate, new_rate |-> new_rate,
   comment |-> comment, next_check |-> next_check]

Blank == Page("none", None, None, None, None, None)

(***************************************************************************)
(* src/infusion.py: the Streamlit wrapper.  One run of the script for the  *)
(* given widget values; the result is the set of pages it can produce.     *)
(***************************************************************************)
StartMode == "Start infusion (initial bolus & rate)"
AdjustMode == "Adjust infusion (ongoing)"
Modes == {StartMode, AdjustMode}

\* `if init_bg:` branch of the start mode
RunStart(ibg) ==
  IF ibg # 0
    THEN {Page("start", Some(r[1]), Some(r[2]), None, None, None) :
            r \in calc_initial_rate_and_bolus(ibg)}
    ELSE {Blank}

\* `if curr_bg and prev_bg and last_rate:` a value of 0.0 is falsy
inputs_given(cbg, pbg, last) == cbg # 0 /\ pbg # 0 /\ last # 0

\* body of the adjust mode
RunAdjust(cbg, pbg, last) ==
  IF inputs_given(cbg, pbg, last)
    THEN {IF new_rate = 0 /\ cbg < 70
            THEN Page("hypo", None, None, Some(new_rate),
                      <<"Hypoglycaemia! Stop insulin, give IV dextrose per protocol.">>,
                      None)
            ELSE Page("set", None, None, Some(new_rate), None, None) :
          new_rate \in calc_ongoing_rate(cbg, pbg, last)}
    ELSE {Blank}

\* the whole script, dispatching on the radio button
RunApp(m, ibg, cbg, pbg, last) ==
  IF m = StartMode THEN RunStart(ibg) ELSE RunAdjust(cbg, pbg, last)

(***************************************************************************)
(* src/iv_insulin_calculator.py: the older single-form calculator.  Its    *)
(* delta is B - C (positive when glucose ROSE), its band limits carry one  *)
(* decimal, and its rate widget has no minimum.                            *)
(***************************************************************************)

\* Mutation: the operands of the subtraction are swapped.
legacy_rate_swapped(Bx, m) == Rat((60 - Bx) * m, 1000)

\* (B - 60) * m for a multiplier m given in thousandths
legacy_rate(Bx, m) == Rat((Bx - 60) * m, 1000)

\* (B - 60) * ((last_rate / (B - 60)) + 0.01); only used for B > 179
legacy_adaptive_rate(Bx, last) ==
  Rat((Bx - 60) * (100 * last + 10 * (Bx - 60)), 1000 * (Bx - 60))

\* outcome of the ongoing branch before display: new_rate is None, or the
\* unrounded rate; dextrose is the volume of the hypoglycaemia comment
Ongoing(new_rate, comment, dextrose, next_check) ==
  [new_rate |-> new_rate, comment |-> comment, dextrose |-> dextrose,
   next_check |-> next_check]

\* the two middle bands (110.1..139 and 139.1..179) share one body
legacy_mid_band(Bx, delta) ==
  IF delta >= 1 THEN Ongoing(Some(legacy_rate(Bx, 30)), None, None, None)
  ELSE IF 0 >= delta /\ delta >= -20
    THEN Ongoing(Some(legacy_rate(Bx, 20)), None, None, None)
  ELSE IF -201 >= 10 * delta /\ delta >= -40
    THEN Ongoing(Some(legacy_rate(Bx, 14)), None, None, None)
  ELSE Ongoing(Some(Rat(0, 1)), None, None, Some(30))

\* the if/elif chain on B of the ongoing branch
legacy_ongoing(Bx, Cx, last) ==
  LET delta == Bx - Cx
  IN  IF Bx < 70
        THEN Ongoing(Some(Rat(0, 1)), <<"Give ml of IV 50% dextrose">>,
                     Some(Rat((100 - Bx) * 3, 10)), Some(15))
      ELSE IF 70 <= Bx /\ Bx <= 110
        THEN Ongoing(Some(Rat(0, 1)),
                     <<"Consider 5 ml IV 50% dextrose if elderly or high risk">>,
                     None, Some(30))
      ELSE IF 1101 <= 10 * Bx /\ Bx <= 139 THEN legacy_mid_band(Bx, delta)
      ELSE IF 1391 <= 10 * Bx /\ Bx <= 179 THEN legacy_mid_band(Bx, delta)
      ELSE IF 1791 <= 10 * Bx /\ Bx <= 249
        THEN IF delta >= -10
               THEN Ongoing(Some(legacy_adaptive_rate(Bx, last)), None, None, None)
             ELSE IF -11 >= delta /\ delta >= -40
               THEN Ongoing(Some(legacy_rate(Bx, 30)), None, None, None)
             ELSE IF -41 >= delta /\ delta >= -80
               THEN Ongoing(Some(legacy_rate(Bx, 20)), None, None, None)
             ELSE Ongoing(Some(legacy_rate(Bx, 14)), None, None, None)
      ELSE IF Bx > 249
        THEN IF delta >= -40
               THEN Ongoing(Some(legacy_adaptive_rate(Bx, last)), None, None, None)
             ELSE IF -41 >= delta /\ delta >= -80
               THEN Ongoing(Some(legacy_rate(Bx, 30)), None, None, None)
             ELSE IF -81 >= delta /\ delta >= -120
               THEN Ongoing(Some(legacy_rate(Bx, 20)), None, None, None)
             ELSE Ongoing(Some(legacy_rate(Bx, 14)), None, None, None)
      ELSE Ongoing(None, None, None, None)

\* optional rational -> the optional values round(.., 1) can display
Round1Opt(x) == IF x = None THEN {None} ELSE {Some(v) : v \in Round1(x[1])}

\* one run of the legacy script
RunLegacy(Ax, Bx, Cx, last) ==
  IF Ax # 0
    THEN LET d == IF Ax < 300 THEN 100 ELSE 70
         IN  {Page("initial", Some(10 * Round0(Rat(Ax, d))), Some(rate),
                   None, None, None) : rate \in Round1(Rat(Ax, d))}
  ELSE IF Bx # 0 /\ Cx # 0
    THEN LET o == legacy_ongoing(Bx, Cx, last)
         IN  {Page("ongoing", None, None, nr,
                   o.comment \o dx,
                   o.next_check) :
                nr \in Round1Opt(o.new_rate), dx \in Round1Opt(o.dextrose)}
  ELSE {Page("info", None, None, None, None, None)}

(***************************************************************************)
(* The state machine.  prog is the entry point in use: one of the two      *)
(* Streamlit scripts, or the pure functions of src/infusion.py called      *)
(* directly.  Streamlit reruns the whole script after every widget change, *)
(* so each action sets one widget and then runs the script.                *)
(***************************************************************************)
App == "infusion.py"
Legacy == "iv_insulin_calculator.py"
Functions == "functions"
Progs == {App, Legacy, Functions}

\* a recorded call of a pure function: its arguments and what it returned
Call(fn, args, ret) == [fn |-> fn, args |-> args, ret |-> ret]
NoCall == Call("none", << >>, << >>)

\* glucose readings tried in the legacy form
LegacyBGs == {b \in BGs :
                \/ b % 100 = 0
                \/ \E e \in BandEdges : b - e \in (0 - EdgeSpread)..EdgeSpread}
LegacyAs == {a \in LegacyBGs : a % 100 = 0 \/ a > 250}
LegacyRates == NegRates \cup {r \in Rates : r % 10 = 0}

Init ==
  /\ prog \in Progs
  /\ mode = StartMode
  /\ init_bg = 0 /\ curr_bg = 0 /\ prev_bg = 0 /\ last_rate = 0
  /\ A = 0 /\ B = 0 /\ C = 0
  /\ shown \in (IF prog = App THEN RunApp(StartMode, 0, 0, 0, 0)
                ELSE IF prog = Legacy THEN RunLegacy(0, 0, 0, 0)
                ELSE {Blank})
  /\ call = NoCall
  /\ before = NoCall

\* ---- src/infusion.py --------------------------------------------------

\* the radio button; the widgets of the other branch are not rendered any
\* more and come back with their default, min_value = 0.0
SelectMode ==
  /\ prog = App
  /\ \E m \in Modes \ {mode} :
       /\ mode' = m
       /\ shown' \in RunApp(m, 0, 0, 0, 0)
  /\ init_bg' = 0 /\ curr_bg' = 0 /\ prev_bg' = 0 /\ last_rate' = 0
  /\ UNCHANGED <<prog, A, B, C, call, before>>

EnterInitBg ==
  /\ prog = App /\ mode = StartMode
  /\ \E v \in BGs :
       /\ init_bg' = v
       /\ shown' \in RunApp(mode, v, curr_bg, prev_bg, last_rate)
  /\ UNCHANGED <<prog, mode, curr_bg, prev_bg, last_rate, A, B, C, call, before>>

EnterCurrBg ==
  /\ prog = App /\ mode = AdjustMode
  /\ \E v \in BGs :
       /\ curr_bg' = v
       /\ shown' \in RunApp(mode, init_bg, v, prev_bg, last_rate)
  /\ UNCHANGED <<prog, mode, init_bg, prev_bg, last_rate, A, B, C, call, before>>

EnterPrevBg ==
  /\ prog = App /\ mode = AdjustMode
  /\ \E v \in BGs :
       /\ prev_bg' = v
       /\ shown' \in RunApp(mode, init_bg, curr_bg, v, last_rate)
  /\ UNCHANGED <<prog, mode, init_bg, curr_bg, last_rate, A, B, C, call, before>>

EnterLastRate ==
  /\ prog = App /\ mode = AdjustMode
  /\ \E v \in Rates :
       /\ last_rate' = v
       /\ shown' \in RunApp(mode, init_bg, curr_bg, prev_bg, v)
  /\ UNCHANGED <<prog, mode, init_bg, curr_bg, prev_bg, A, B, C, call, before>>

\* ---- src/iv_insulin_calculator.py -------------------------------------

EnterA ==
  /\ prog = Legacy
  /\ \E v \in LegacyAs :
       /\ A' = v
       /\ shown' \in RunLegacy(v, B, C, last_rate)
  /\ UNCHANGED <<prog, mode, init_bg, curr_bg, prev_bg, last_rate, B, C, call, before>>

EnterB ==
  /\ prog = Legacy
  /\ \E v \in LegacyBGs :
       /\ B' = v
       /\ shown' \in RunLegacy(A, v, C, last_rate)
  /\ UNCHANGED <<prog, mode, init_bg, curr_bg, prev_bg, last_rate, A, C, call, before>>

EnterC ==
  /\ prog = Legacy
  /\ \E v \in LegacyBGs :
       /\ C' = v
       /\ shown' \in RunLegacy(A, B, v, last_rate)
  /\ UNCHANGED <<prog, mode, init_bg, curr_bg, prev_bg, last_rate, A, B, call, before>>

EnterLegacyRate ==
  /\ prog = Legacy
  /\ \E v \in LegacyRates :
       /\ last_rate' = v
       /\ shown' \in RunLegacy(A, B, C, v)
  /\ UNCHANGED <<prog, mode, init_bg, curr_bg, prev_bg, A, B, C, call, before>>

\* ---- the pure functions called directly --------------------------------
\* The functions keep nothing between calls, so each call is made from the
\* fresh state.

CallInitial ==
  /\ prog = Functions
  /\ call = NoCall
  /\ \E bg \in FnBGs : \E r \in calc_initial_rate_and_bolus(bg) :
       call' = Call("calc_initial_rate_and_bolus", <<bg>>, r)
  /\ before' = NoCall
  /\ UNCHANGED <<prog, mode, init_bg, curr_bg, prev_bg, last_rate, A, B, C, shown>>

CallOngoing ==
  /\ prog = Functions
  /\ call = NoCall
  /\ \E c \in FnBGs, d \in Deltas, l \in FnRates :
       \E r \in calc_ongoing_rate(c, c + d, l) :
         call' = Call("calc_ongoing_rate", <<c, c + d, l>>, <<r>>)
  /\ before' = NoCall
  /\ UNCHANGED <<prog, mode, init_bg, curr_bg, prev_bg, last_rate, A, B, C, shown>>

\* a second titration with both readings k mg/dL higher (same delta, same
\* last_rate); the first call is kept in `before` for comparison
CallOngoingHigher ==
  /\ prog = Functions
  /\ call.fn = "calc_ongoing_rate"
  /\ before = NoCall
  /\ \E k \in 1..MaxShift :
       \E r \in calc_ongoing_rate(call.args[1] + k, call.args[2] + k, call.args[3]) :
         call' = Call("calc_ongoing_rate",
                      <<call.args[1] + k, call.args[2] + k, call.args[3]>>, <<r>>)
  /\ before' = call
  /\ UNCHANGED <<prog, mode, init_bg, curr_bg, prev_bg, last_rate, A, B, C, shown>>

Next ==
  \/ SelectMode
  \/ EnterInitBg
  \/ EnterCurrBg
  \/ EnterPrevBg
  \/ EnterLastRate
  \/ EnterA
  \/ EnterB
  \/ EnterC
  \/ EnterLegacyRate
  \/ CallInitial
  \/ CallOngoing
  \/ CallOngoingHigher

Spec == Init /\ [][Next]_vars

(***************************************************************************)
(* Properties.  Rates are compared in tenths; "x is round(v, 1)" is stated *)
(* as "x is a tenth nearest to v": |x - 10 v| <= 1/2.                      *)
(***************************************************************************)

\* C1: for every current_bg < 70 the titration yields new_rate = 0 and the
\* hypoglycaemia advisory, whatever previous_bg and last_rate are (0
\* included): the function returns 0 and the adjust page shows the warning.
C1_HypoglycaemiaAlwaysAdvised ==
  /\ (prog = Functions /\ call.fn = "calc_ongoing_rate" /\ call.args[1] < 70)
       => call.ret = <<0>>
  /\ (prog = App /\ mode = AdjustMode /\ curr_bg < 70)
       => (shown.msg = "hypo" /\ shown.new_rate = <<0>>)

\* C2: calc_initial_rate_and_bolus(bg) for bg >= 0 returns a pair (bolus,
\* rate) with rate = bolus and bolus = round(bg / 70, 1) when bg >= 300,
\* round(bg / 100, 1) otherwise; 256 -> 2.6, 310 -> 4.4, and the divisor
\* switches exactly at 300 (299 -> 3.0, 300 -> 4.3).
C2_InitialDose ==
  (prog = Functions /\ call.fn = "calc_initial_rate_and_bolus" /\ call.args[1] >= 0)
    => LET bg == call.args[1]
           d == IF bg >= 300 THEN 70 ELSE 100
           err == call.ret[1] * d - 10 * bg
       IN  /\ Len(call.ret) = 2
           /\ call.ret[2] = call.ret[1]
           /\ 2 * err <= d /\ 2 * (0 - err) <= d
           /\ (bg = 256 => call.ret = <<26, 26>>)
           /\ (bg = 310 => call.ret = <<44, 44>>)
           /\ (bg = 299 => call.ret = <<30, 30>>)
           /\ (bg = 300 => call.ret = <<43, 43>>)

\* C2 witness: the call at the switching point 300 returned 4.3 / 4.3
C2_Witness ==
  /\ prog = Functions
  /\ call = Call("calc_initial_rate_and_bolus", <<300>>, <<43, 43>>)

\* C3: a negative argument is rejected: a call of either function with a
\* negative argument returns no value.
C3_NegativeRejected ==
  (prog = Functions /\ call.fn # "none"
     /\ \E i \in DOMAIN call.args : call.args[i] < 0)
    => call.ret = << >>

\* C4: for 70 <= current_bg <= 110 and a gentle fall (0 < delta < 40) the
\* titration (of non-negative inputs) holds the infusion: new_rate = 0.
C4_HoldBand ==
  (prog = Functions /\ call.fn = "calc_ongoing_rate"
     /\ call.args[3] >= 0
     /\ 70 <= call.args[1] /\ call.args[1] <= 110
     /\ 0 < call.args[2] - call.args[1] /\ call.args[2] - call.args[1] < 40)
    => call.ret = <<0>>

\* C5 as claimed: whenever current_bg >= 180 and delta <= 10, for any
\* last_rate >= 0, new_rate is at least (current_bg - 60) * 0.03 rounded to
\* one decimal.
C5_EscalationFloor ==
  (prog = Functions /\ call.fn = "calc_ongoing_rate"
     /\ call.args[1] >= 180 /\ call.args[2] - call.args[1] <= 10
     /\ call.args[3] >= 0)
    => 100 * call.ret[1] >= 30 * (call.args[1] - 60) - 50

\* C5 amended: whenever current_bg >= 180 and delta <= 10, and moreover
\* delta <= 0 or current_bg >= 250 or last_rate >= 0.02 * (current_bg - 60),
\* new_rate is at least (current_bg - 60) * 0.03 rounded to one decimal.
C5_EscalationFloorAmended ==
  (prog = Functions /\ call.fn = "calc_ongoing_rate"
     /\ call.args[1] >= 180 /\ call.args[2] - call.args[1] <= 10
     /\ call.args[3] >= 0
     /\ \/ call.args[2] - call.args[1] <= 0
        \/ call.args[1] >= 250
        \/ 5 * call.args[3] >= call.args[1] - 60)
    => 100 * call.ret[1] >= 30 * (call.args[1] - 60) - 50

\* C5 witness: the scenario 200 / 205 / 3.0 U/h returned 4.4 U/h
C5_Witness ==
  /\ prog = Functions
  /\ call = Call("calc_ongoing_rate", <<200, 205, 30>>, <<44>>)

\* C6: with last_rate >= 0 and delta fixed, two readings c1 <= c2 of the same
\* glucose band above 70 (70..110, 110..140, 140..180, 180..250, >= 250,
\* the value 110 belonging to the first) give new_rate(c1) <= new_rate(c2).
C6_MonotoneWithinBand ==
  LET band(c) == IF c < 70 THEN 0
                 ELSE IF c <= 110 THEN 1
                 ELSE IF c < 140 THEN 2
                 ELSE IF c < 180 THEN 3
                 ELSE IF c < 250 THEN 4
                 ELSE 5
  IN  (prog = Functions /\ before.fn = "calc_ongoing_rate"
         /\ call.fn = "calc_ongoing_rate"
         /\ before.args[1] <= call.args[1]
         /\ before.args[2] - before.args[1] = call.args[2] - call.args[1]
         /\ before.args[3] = call.args[3]
         /\ call.args[3] >= 0
         /\ band(before.args[1]) >= 1
         /\ band(before.args[1]) = band(call.args[1]))
        => before.ret[1] <= call.ret[1]

\* C7: for current_bg >= 180, delta <= 10 and last_rate >= 0 the new rate
\* is not below last_rate + 0.01 * (current_bg - 60), up to the rounding to
\* one decimal, and is strictly greater than last_rate.
C7_EscalationClimbs ==
  (prog = Functions /\ call.fn = "calc_ongoing_rate"
     /\ call.args[1] >= 180 /\ call.args[2] - call.args[1] <= 10
     /\ call.args[3] >= 0)
    => /\ 10 * call.ret[1] >= 10 * call.args[3] + (call.args[1] - 60) - 5
       /\ call.ret[1] > call.args[3]

\* C7 witness: 250 / 250 / 5.0 U/h, where the adaptive multiplier is the
\* larger one, returned 6.9 U/h
C7_Witness ==
  /\ prog = Functions
  /\ call = Call("calc_ongoing_rate", <<250, 250, 50>>, <<69>>)

\* C8: for current_bg >= 70 and delta >= 40, new_rate is
\* round((current_bg - 60) * 0.014, 1); for 70 <= current_bg < 180 and
\* delta <= 0 it is round((current_bg - 60) * 0.03, 1); whatever the band
\* and last_rate.
C8_RateOfChangeOverrides ==
  (prog = Functions /\ call.fn = "calc_ongoing_rate" /\ call.args[1] >= 70)
    => LET n == call.args[1] - 60
           delta == call.args[2] - call.args[1]
           r == call.ret[1]
       IN  /\ delta >= 40
             => (100 * r - 14 * n <= 50 /\ 14 * n - 100 * r <= 50)
           /\ (delta <= 0 /\ call.args[1] < 180)
             => (100 * r - 30 * n <= 50 /\ 30 * n - 100 * r <= 50)

\* C8 witness: a fall of exactly 40 in the top band (250 / 290 / 5.0 U/h)
\* returned 190 * 0.014 = 2.66 -> 2.7 U/h
C8_Witness ==
  /\ prog = Functions
  /\ call = Call("calc_ongoing_rate", <<250, 290, 50>>, <<27>>)

\* C9: in adjust mode the page always answers: for every triple of
\* non-negative widget values, 0 included, it shows the new pump rate or
\* the hypoglycaemia advisory.
C9_AdjustAlwaysAnswers ==
  (prog = App /\ mode = AdjustMode) => shown.msg \in {"set", "hypo"}

====
